---- MODULE Spec2Model ----
(***************************************************************************)
(* Model of the attachment pipeline of gkeep-to-notion:                    *)
(*   src/gkeep_to_notion/{config,utils,ocr,api,processors,cli}.py          *)
(*                                                                         *)
(* A text is a sequence of symbols.  A symbol is one character, except     *)
(* that the body of a fixed program message is kept as one symbol (it has  *)
(* no whitespace at its ends and is never measured).  CrossMark stands for *)
(* the character U+274C that starts every error sentinel.                  *)
(***************************************************************************)
EXTENDS Integers, Sequences, FiniteSets, TLC

VARIABLES
    Config,      \* attributes of class Config (config.py), mutated by run()
    fmtIn,       \* direct call of format_text_with_chatgpt: its arguments
    fmtOut,      \* direct call of format_text_with_chatgpt: its outcome
    args,        \* parsed command line: [debug, count, ocr_only]
    notes,       \* the input folder: per note file, its attachment filePaths
    ocrCache,    \* ocr_cache folder: cache key -> file content (or Absent)
    fmtCache,    \* chatgpt_cache folder: cache key -> file content (or Absent)
    sem,         \* Config.OCR_SEMAPHORE._value
    runPc,       \* position of run(): "init", "running", "complete", "exit1"
    cursor,      \* index of the first note of the current batch / debug step
    notePc,      \* per note: position of its process_note call
    att,         \* per attachment task <<note, index>>: its process_attachment call
    docs,        \* per note: the arguments of the documents written
    lastOcr,     \* history: per cache key, the last ocr_image call that returned
    lastFmt,     \* history: per cache key, the last process_attachment that returned
    broken       \* the environment: the image whose OCR fails and at which stage,
                 \* and the note file that is not valid JSON (0: none)

pvars == <<args, notes, ocrCache, fmtCache, sem, runPc, cursor, notePc, att,
           docs, lastOcr, lastFmt, broken>>

fvars == <<fmtIn, fmtOut>>

vars == <<Config, fvars, pvars>>

None == "None"

(***************************************************************************)
(* Text helpers: str.strip(), str.startswith()                             *)
(***************************************************************************)
Whitespace == {" ", "\n", "\t"}

RECURSIVE lstrip(_)
lstrip(s) ==
    IF s # <<>> /\ Head(s) \in Whitespace THEN lstrip(Tail(s)) ELSE s

RECURSIVE rstrip(_)
rstrip(s) ==
    IF s # <<>> /\ s[Len(s)] \in Whitespace
    THEN rstrip(SubSeq(s, 1, Len(s) - 1))
    ELSE s

strip(s) == rstrip(lstrip(s))

CrossMark == "[X]"

startswith(s, c) == s # <<>> /\ Head(s) = c

(***************************************************************************)
(* config.py: the class attributes as the class statement leaves them.     *)
(* hasKey says whether OPENAI_API_KEY is set in the environment.           *)
(***************************************************************************)
OCR_SEMAPHORE_LIMIT == 4

ConfigClass(hasKey) ==
    [ DEBUG_MODE          |-> TRUE,
      DEBUG_FILE_COUNT    |-> 15,
      USE_CHATGPT         |-> TRUE,
      OPENAI_API_KEY      |-> hasKey,
      OCR_SEMAPHORE_LIMIT |-> OCR_SEMAPHORE_LIMIT,
      OCR_SEMAPHORE       |-> None ]

\* getattr(Config, name) succeeds only for an attribute the class has
HasAttr(name) == name \in DOMAIN Config

(***************************************************************************)
(* api.py: format_text_with_chatgpt(raw_text, session)                     *)
(* script is what the service answers to the successive requests of the    *)
(* call: "ok" (with the generated text), or a retryable failure.           *)
(* The outcome is [kind, value, requests, waits]: kind "return" or         *)
(* "raise", the number of requests posted and the delays slept.            *)
(***************************************************************************)
MinTextLength == 10

TooShortSentinel == <<CrossMark, " ", "Text too short for processing">>
GenericSentinel  == <<CrossMark, " ", "Failed to get response after multiple attempts">>

FailureKinds == {"timeout", "status", "nochoices", "errorpayload", "exception"}

ErrorMsg(kind) ==
    CASE kind = "timeout"      -> "API request timed out after 30 seconds"
      [] kind = "status"       -> "API returned status"
      [] kind = "nochoices"    -> "No choices in API response"
      [] kind = "errorpayload" -> "API error: payload"
      [] OTHER                 -> "API error: exception"

Pow2(n) == 2 ^ n

Answer(script, attempt) ==
    IF attempt + 1 <= Len(script)
    THEN script[attempt + 1]
    ELSE [kind |-> "timeout", content |-> <<>>]

\* the for loop of lines 54-128, from iteration `attempt` on
RECURSIVE RetryLoop(_, _, _, _, _, _)
RetryLoop(attempt, retry_attempts, retry_delay, script, requests, waits) ==
    IF attempt >= retry_attempts
    THEN [kind |-> "return", value |-> GenericSentinel,
          requests |-> requests, waits |-> waits]
    ELSE LET answer == Answer(script, attempt) IN
         IF answer.kind = "ok"
         THEN [kind |-> "return", value |-> answer.content,
               requests |-> requests + 1, waits |-> waits]
         ELSE IF attempt < retry_attempts - 1
         THEN RetryLoop(attempt + 1, retry_attempts, retry_delay, script,
                        requests + 1,
                        Append(waits, retry_delay * Pow2(attempt)))
         ELSE [kind |-> "return",
               value |-> <<CrossMark, " ", ErrorMsg(answer.kind)>>,
               requests |-> requests + 1, waits |-> waits]

FormatRaiseMissingAttr(raw_text, script) ==
    [kind |-> "raise", value |-> "AttributeError", requests |-> 0, waits |-> <<>>]

\* faulty variant: the guard of lines 27-29 only tests for the empty string
format_guard_empty_only(raw_text, script) ==
    IF raw_text = <<>>
    THEN [kind |-> "return", value |-> TooShortSentinel,
          requests |-> 0, waits |-> <<>>]
    ELSE FormatRaiseMissingAttr(raw_text, script)

format_text_with_chatgpt(raw_text, script) ==
    IF raw_text = <<>> \/ Len(strip(raw_text)) < MinTextLength
    THEN [kind |-> "return", value |-> TooShortSentinel,
          requests |-> 0, waits |-> <<>>]
    ELSE IF ~HasAttr("API_RETRY_ATTEMPTS") \/ ~HasAttr("API_RETRY_DELAY")
    THEN FormatRaiseMissingAttr(raw_text, script)
    ELSE RetryLoop(0, Config.API_RETRY_ATTEMPTS, Config.API_RETRY_DELAY,
                   script, 0, <<>>)

(***************************************************************************)
(* utils.py: sanitize_filename; os.path.basename, os.path.join             *)
(***************************************************************************)
UnsafeChars == {"<", ">", ":", "\"", "/", "\\", "|", "?", "*"}

MaxFilenameLen == 255

RECURSIVE lstripChar(_, _)
lstripChar(s, c) ==
    IF s # <<>> /\ Head(s) = c THEN lstripChar(Tail(s), c) ELSE s

RECURSIVE rstripChar(_, _)
rstripChar(s, c) ==
    IF s # <<>> /\ s[Len(s)] = c
    THEN rstripChar(SubSeq(s, 1, Len(s) - 1), c)
    ELSE s

sanitize_filename(filename) ==
    LET sanitized == [i \in 1..Len(filename) |->
                        IF filename[i] \in UnsafeChars THEN "_" ELSE filename[i]]
        stripped  == rstripChar(lstripChar(strip(sanitized), "_"), "_")
    IN  SubSeq(stripped, 1, IF Len(stripped) < MaxFilenameLen
                            THEN Len(stripped) ELSE MaxFilenameLen)

RECURSIVE basename(_)
basename(path) ==
    IF \E i \in 1..Len(path) : path[i] = "/"
    THEN basename(Tail(path))
    ELSE path

join(folder, rel) ==
    IF rel # <<>> /\ Head(rel) = "/" THEN rel
    ELSE IF folder = <<>> \/ folder[Len(folder)] = "/" THEN folder \o rel
    ELSE folder \o <<"/">> \o rel

\* the cache file name both namespaces use for an attachment (".txt" left out)
CacheKey(path) == sanitize_filename(basename(path))

(***************************************************************************)
(* The environment of a run: the attachments folder, the image files in    *)
(* it, what Tesseract reads in each image, the note files.                 *)
(***************************************************************************)
ATTACHMENTS_FOLDER == <<"K">>

RefA  == <<"a">>
RefB  == <<"b">>
RefC  == <<"c">>
RefD  == <<"d">>
RefE  == <<"e">>
RefM  == <<"m">>              \* referenced by notes, not on disk
RefJA == <<"j", "/", "a">>    \* another image with base name "a"
RefJB == <<"j", "/", "b">>    \* another image with base name "b"

\* the images p0 .. p9, one per note of a full batch
Digits == <<"0", "1", "2", "3", "4", "5", "6", "7", "8", "9">>
RefP(i) == <<"p", Digits[i]>>

Refs == {RefA, RefB, RefC, RefD, RefE, RefM, RefJA, RefJB} \cup {RefP(i) : i \in 1..10}

ImageFiles == {join(ATTACHMENTS_FOLDER, r) : r \in Refs \ {RefM}}

exists(path) == path \in ImageFiles

\* pytesseract.image_to_string(img): the text before .strip()
Tesseract(path) ==
    CASE path = join(ATTACHMENTS_FOLDER, RefA) ->
            <<" ", "h", "e", "l", "l", "o", " ", "w", "o", "r", "l", "d", "\n">>
      [] path = join(ATTACHMENTS_FOLDER, RefB) -> <<"\n", " ">>
      [] path = join(ATTACHMENTS_FOLDER, RefC) -> <<"h", "i", "\n">>
      [] path = join(ATTACHMENTS_FOLDER, RefD) ->
            <<"0", "1", "2", "3", "4", "5", "6", "7", "8", "9">>
      [] path = join(ATTACHMENTS_FOLDER, RefE) ->
            <<"1", "2", "3", "4", "5", "6", "7", "8", "9", " ">>
      [] OTHER ->
            <<"o", "t", "h", "e", "r", " ", "i", "m", "a", "g", "e">>

AllKeys == {CacheKey(join(ATTACHMENTS_FOLDER, r)) : r \in Refs}

Absent == <<"<no file>">>

(***************************************************************************)
(* Direct calls of format_text_with_chatgpt on bounded inputs              *)
(***************************************************************************)
MaxTextLen == 11

TextChars == {"a", " "}

RECURSIVE SeqsUpTo(_, _)
SeqsUpTo(S, n) ==
    IF n = 0 THEN {<<>>}
    ELSE LET shorter == SeqsUpTo(S, n - 1) IN
         shorter \cup {Append(s, c) : s \in {x \in shorter : Len(x) = n - 1}, c \in S}

Generated == <<"g", "e", "n", "e", "r", "a", "t", "e", "d", "\n">>

Ok(content) == [kind |-> "ok", content |-> content]
Fail(kind)  == [kind |-> kind, content |-> <<>>]

FlakyScript   == <<Fail("timeout"), Fail("status"), Ok(Generated)>>
AllFailScript == <<Fail("nochoices"), Fail("errorpayload"), Fail("exception")>>

Scripts == {<<Ok(Generated)>>, FlakyScript, AllFailScript}

Pending == [kind |-> "pending"]

InitFormat ==
    /\ Config \in {ConfigClass(k) : k \in BOOLEAN}
    /\ fmtIn \in [text : SeqsUpTo(TextChars, MaxTextLen), script : Scripts]
    /\ fmtOut = Pending
    /\ args = [debug |-> TRUE, count |-> 0, ocr_only |-> FALSE]
    /\ notes = <<>>
    /\ ocrCache = <<>> /\ fmtCache = <<>> /\ lastOcr = <<>> /\ lastFmt = <<>>
    /\ sem = 0 /\ runPc = "init" /\ cursor = 1
    /\ broken = [path |-> <<>>, stage |-> "none", note |-> 0]
    /\ notePc = <<>> /\ att = <<>> /\ docs = <<>>

CallFormat ==
    /\ fmtOut.kind = "pending"
    /\ fmtOut' = format_text_with_chatgpt(fmtIn.text, fmtIn.script)
    /\ UNCHANGED <<Config, fmtIn, pvars>>

NextFormat == CallFormat

SpecFormat == InitFormat /\ [][NextFormat]_vars

(***************************************************************************)
(* The run: cli.run -> process_note -> process_attachment -> ocr_image     *)
(***************************************************************************)
Input1 == << <<RefA, RefB, RefC, RefM, RefD, RefE>> >>
Input2 == << <<RefA, RefM, RefC>>, <<RefA, RefJA>> >>
\* one full batch of notes with one image each, and a note for the next batch
\* two notes that show the same image, one without text
Input4 == << <<RefB>>, <<RefB>> >>
\* two notes that show two images of one base name, the first without text
Input5 == << <<RefB>>, <<RefJB>> >>
Input3 == [n \in 1..11 |-> IF n <= 10 THEN <<RefP(n)>> ELSE <<RefC>>]

PathA == join(ATTACHMENTS_FOLDER, RefA)
PathD == join(ATTACHMENTS_FOLDER, RefD)

NoFault == [path |-> <<>>, stage |-> "none", note |-> 0]

FailStages == {"open", "preprocess", "extract", "persist"}

KeyA == CacheKey(join(ATTACHMENTS_FOLDER, RefA))
KeyC == CacheKey(join(ATTACHMENTS_FOLDER, RefC))

EmptyCache == [k \in AllKeys |-> Absent]

OcrCacheA ==
    [EmptyCache EXCEPT ![KeyA] = <<"c", "a", "c", "h", "e", "d", " ", "t", "e", "x", "t", "\n">>]

\* what the cache folders may hold when the run starts
OcrCaches0 ==
    { EmptyCache,
      OcrCacheA,
      [EmptyCache EXCEPT ![KeyA] = <<"\n">>] }

FmtCaches0 ==
    { EmptyCache,
      [EmptyCache EXCEPT ![KeyA] = <<"#", " ", "H", "i", "\n">>],
      [EmptyCache EXCEPT ![KeyA] = TooShortSentinel],
      [EmptyCache EXCEPT ![KeyC] = GenericSentinel],
      [EmptyCache EXCEPT ![KeyA] = <<" ">>, ![KeyC] = <<"\n">>] }

\* every image of Input3's first batch has its text in the OCR cache
OcrCache3 ==
    [k \in AllKeys |->
        IF \E i \in 1..10 : k = CacheKey(join(ATTACHMENTS_FOLDER, RefP(i)))
        THEN <<"t", "x", "t", "\n">> ELSE Absent]

\* the note files, the cache folders and the broken image a run may find
Environments ==
    {[notes |-> Input1, ocr |-> EmptyCache, fmt |-> EmptyCache, broken |-> b] :
        b \in {NoFault} \cup {[path |-> PathD, stage |-> s, note |-> 0] : s \in FailStages}}
    \cup
    {[notes |-> Input2, ocr |-> o, fmt |-> f, broken |-> NoFault] :
        o \in OcrCaches0, f \in FmtCaches0}
    \cup
    {[notes |-> Input2, ocr |-> EmptyCache, fmt |-> f,
      broken |-> [path |-> PathA, stage |-> s, note |-> 0]] :
        s \in {"extract", "persist"},
        f \in {EmptyCache, [EmptyCache EXCEPT ![KeyA] = <<"#", " ", "H", "i", "\n">>]}}
    \cup
    {[notes |-> Input2, ocr |-> EmptyCache, fmt |-> EmptyCache,
      broken |-> [NoFault EXCEPT !.note = n]] : n \in 1..2}
    \cup
    {[notes |-> Input3, ocr |-> OcrCache3, fmt |-> EmptyCache, broken |-> NoFault]}
    \cup
    {[notes |-> Input1, ocr |-> OcrCacheA, fmt |-> EmptyCache, broken |-> NoFault]}
    \cup
    {[notes |-> Input4, ocr |-> EmptyCache, fmt |-> EmptyCache, broken |-> NoFault]}
    \cup
    {[notes |-> Input5, ocr |-> EmptyCache, fmt |-> EmptyCache, broken |-> NoFault]}

\* the command line and whether OPENAI_API_KEY is set
Settings ==
    { [key |-> TRUE,  debug |-> TRUE,  count |-> 1, ocr_only |-> FALSE],
      [key |-> TRUE,  debug |-> TRUE,  count |-> 2, ocr_only |-> FALSE],
      [key |-> TRUE,  debug |-> TRUE,  count |-> 2, ocr_only |-> TRUE],
      [key |-> TRUE,  debug |-> FALSE, count |-> 2, ocr_only |-> FALSE],
      [key |-> TRUE,  debug |-> FALSE, count |-> 2, ocr_only |-> TRUE],
      [key |-> FALSE, debug |-> FALSE, count |-> 2, ocr_only |-> TRUE],
      [key |-> FALSE, debug |-> TRUE,  count |-> 2, ocr_only |-> FALSE] }

BatchRun == [key |-> FALSE, debug |-> FALSE, count |-> 2, ocr_only |-> TRUE]

\* the settings a run on environment e is made with
SettingsFor(e) ==
    IF e.notes = Input3 \/ (e.notes = Input1 /\ e.ocr # EmptyCache)
    THEN {BatchRun} ELSE Settings

\* processors.py 97-101: the existing attachments of a note, in note order
attachment_paths(refs) ==
    SelectSeq([i \in 1..Len(refs) |-> join(ATTACHMENTS_FOLDER, refs[i])], exists)

NoteIds == 1..Len(notes)

TasksOf(n) == {t \in DOMAIN att : t[1] = n}

NoPrev == [has |-> FALSE, text |-> <<>>]

IdleTask(path) ==
    [ pc |-> "idle", path |-> path, key |-> CacheKey(path), ocr |-> <<>>, raw |-> <<>>, fmt |-> <<>>,
      fail |-> "none", extractions |-> 0, slots |-> 0, requests |-> 0,
      ocrRaised |-> FALSE, rank |-> 0,
      script |-> <<>>, dirty |-> FALSE, prevOcr |-> NoPrev, prevFmt |-> NoPrev,
      fmtSeen |-> Absent, semSeen |-> -1, prevEmpty |-> FALSE, ocrSeen |-> Absent ]

\* writes: history, how many calls have written the cache entry of the key
\* path: history, the file of the call on the key that ended last
NoCall == [has |-> FALSE, text |-> <<>>, clean |-> FALSE, extracted |-> FALSE,
           writes |-> 0, fail |-> "none", path |-> <<>>]

\* starts: history, how many times process_note was called on the note
NoDocs == [written |-> FALSE, paths |-> <<>>, raw |-> <<>>, fmt |-> <<>>, starts |-> 0,
           md |-> <<>>, html |-> <<>>]

Init ==
    /\ fmtIn = [text |-> <<>>, script |-> <<>>]
    /\ fmtOut = Pending
    /\ \E e \in Environments : \E s \in SettingsFor(e) :
         /\ Config = ConfigClass(s.key)
         /\ args = [debug |-> s.debug, count |-> s.count, ocr_only |-> s.ocr_only]
         /\ notes = e.notes
         /\ ocrCache = e.ocr
         /\ fmtCache = e.fmt
         /\ broken = e.broken
    /\ sem = 0
    /\ runPc = "init"
    /\ cursor = 1
    /\ notePc = [n \in 1..Len(notes) |-> "new"]
    /\ att = [t \in UNION {{<<n, i>> : i \in 1..Len(attachment_paths(notes[n]))}
                             : n \in 1..Len(notes)}
                |-> IdleTask(attachment_paths(notes[t[1]])[t[2]])]
    /\ docs = [n \in 1..Len(notes) |-> NoDocs]
    /\ lastOcr = [k \in AllKeys |-> NoCall]
    /\ lastFmt = [k \in AllKeys |-> NoCall]

\* faulty variant: run() goes on without validating the API key
RunStart_unvalidated ==
    /\ runPc = "init"
    /\ Config' = [Config EXCEPT !.DEBUG_MODE = args.debug,
                                !.DEBUG_FILE_COUNT = args.count,
                                !.USE_CHATGPT = ~args.ocr_only,
                                !.OCR_SEMAPHORE = "Semaphore"]
    /\ sem' = Config.OCR_SEMAPHORE_LIMIT
    /\ runPc' = "running"
    /\ UNCHANGED <<fvars, args, notes, ocrCache, fmtCache, cursor, notePc, att,
                   docs, lastOcr, lastFmt, broken>>

(* cli.py 25-49: run() up to the session; sys.exit(1) at line 39 *)
RunStart ==
    /\ runPc = "init"
    /\ Config' = [Config EXCEPT !.DEBUG_MODE = args.debug,
                                !.DEBUG_FILE_COUNT = args.count,
                                !.USE_CHATGPT = ~args.ocr_only,
                                !.OCR_SEMAPHORE = "Semaphore"]
    /\ sem' = Config.OCR_SEMAPHORE_LIMIT
    /\ runPc' = IF ~args.ocr_only /\ ~Config.OPENAI_API_KEY
                THEN "exit1" ELSE "running"
    /\ UNCHANGED <<fvars, args, notes, ocrCache, fmtCache, cursor, notePc, att,
                   docs, lastOcr, lastFmt, broken>>

(***************************************************************************)
(* ocr.py: ocr_image, and the rest of process_attachment after it          *)
(***************************************************************************)
Populated(content) == content # Absent /\ strip(content) # <<>>

\* faulty variant: the cache check of ocr_image is skipped
ocr_cache_lookup_skipped(key) == [hit |-> FALSE, text |-> <<>>]

\* faulty variant: any existing cache file is a hit
ocr_cache_lookup_any_entry(key) ==
    LET content == ocrCache[key] IN
    IF content # Absent
    THEN [hit |-> TRUE, text |-> strip(content)]
    ELSE [hit |-> FALSE, text |-> <<>>]

\* ocr.py 35-40: the cache check
ocr_cache_lookup(key) ==
    LET content == ocrCache[key] IN
    IF content # Absent /\ strip(content) # <<>>
    THEN [hit |-> TRUE, text |-> strip(content)]
    ELSE [hit |-> FALSE, text |-> <<>>]

\* a formatting cache entry process_attachment returns as it is
ValidEntry(content) ==
    /\ content # Absent
    /\ strip(content) # <<>>
    /\ ~startswith(strip(content), CrossMark)

\* faulty variant: process_attachment formats without looking at its cache
process_attachment_no_cache(file_path, ocr_text, script) ==
    IF Config.USE_CHATGPT /\ strip(ocr_text) # <<>>
    THEN LET r == format_text_with_chatgpt(ocr_text, script) IN
         IF r.kind = "raise"
         THEN [kind |-> "raise", raw |-> ocr_text, fmt |-> <<>>,
               write |-> FALSE, requests |-> r.requests, called |-> TRUE]
         ELSE [kind |-> "return", raw |-> ocr_text, fmt |-> r.value,
               write |-> TRUE, requests |-> r.requests, called |-> TRUE]
    ELSE [kind |-> "return", raw |-> ocr_text, fmt |-> ocr_text,
          write |-> FALSE, requests |-> 0, called |-> FALSE]

\* faulty variant: process_attachment formats whatever USE_CHATGPT says
process_attachment_flag_ignored(file_path, ocr_text, script) ==
    IF strip(ocr_text) = <<>>
    THEN [kind |-> "return", raw |-> ocr_text, fmt |-> ocr_text,
          write |-> FALSE, requests |-> 0, called |-> FALSE]
    ELSE LET r == format_text_with_chatgpt(ocr_text, script) IN
         IF r.kind = "raise"
         THEN [kind |-> "raise", raw |-> ocr_text, fmt |-> <<>>,
               write |-> FALSE, requests |-> r.requests, called |-> TRUE]
         ELSE [kind |-> "return", raw |-> ocr_text, fmt |-> r.value,
               write |-> TRUE, requests |-> r.requests, called |-> TRUE]

\* faulty variant: process_attachment sends an empty OCR text to the formatter
process_attachment_no_empty_skip(file_path, ocr_text, script) ==
    IF Config.USE_CHATGPT
    THEN LET cached == fmtCache[CacheKey(file_path)] IN
         IF cached # Absent /\ strip(cached) # <<>>
                            /\ ~startswith(strip(cached), CrossMark)
         THEN [kind |-> "return", raw |-> ocr_text, fmt |-> strip(cached),
               write |-> FALSE, requests |-> 0, called |-> FALSE]
         ELSE LET r == format_text_with_chatgpt(ocr_text, script) IN
              IF r.kind = "raise"
              THEN [kind |-> "raise", raw |-> ocr_text, fmt |-> <<>>,
                    write |-> FALSE, requests |-> r.requests, called |-> TRUE]
              ELSE [kind |-> "return", raw |-> ocr_text, fmt |-> r.value,
                    write |-> TRUE, requests |-> r.requests, called |-> TRUE]
    ELSE [kind |-> "return", raw |-> ocr_text, fmt |-> ocr_text,
          write |-> FALSE, requests |-> 0, called |-> FALSE]

\* faulty variant: process_attachment does not cache an error sentinel
process_attachment_sentinel_unwritten(file_path, ocr_text, script) ==
    IF Config.USE_CHATGPT
    THEN LET cached == fmtCache[CacheKey(file_path)] IN
         IF cached # Absent /\ strip(cached) # <<>>
                            /\ ~startswith(strip(cached), CrossMark)
         THEN [kind |-> "return", raw |-> ocr_text, fmt |-> strip(cached),
               write |-> FALSE, requests |-> 0, called |-> FALSE]
         ELSE IF strip(ocr_text) = <<>>
         THEN [kind |-> "return", raw |-> ocr_text, fmt |-> ocr_text,
               write |-> FALSE, requests |-> 0, called |-> FALSE]
         ELSE LET r == format_text_with_chatgpt(ocr_text, script) IN
              IF r.kind = "raise"
              THEN [kind |-> "raise", raw |-> ocr_text, fmt |-> <<>>,
                    write |-> FALSE, requests |-> r.requests, called |-> TRUE]
              ELSE [kind |-> "return", raw |-> ocr_text, fmt |-> r.value,
                    write |-> ~startswith(r.value, CrossMark),
                    requests |-> r.requests, called |-> TRUE]
    ELSE [kind |-> "return", raw |-> ocr_text, fmt |-> ocr_text,
          write |-> FALSE, requests |-> 0, called |-> FALSE]

\* processors.py 35-71: process_attachment from the return of ocr_image on.
\* write says whether the formatting cache entry is written with fmt.
process_attachment(file_path, ocr_text, script) ==
    IF Config.USE_CHATGPT
    THEN LET cached == fmtCache[CacheKey(file_path)] IN
         IF cached # Absent /\ strip(cached) # <<>>
                            /\ ~startswith(strip(cached), CrossMark)
         THEN [kind |-> "return", raw |-> ocr_text, fmt |-> strip(cached),
               write |-> FALSE, requests |-> 0, called |-> FALSE]
         ELSE IF strip(ocr_text) = <<>>
         THEN [kind |-> "return", raw |-> ocr_text, fmt |-> ocr_text,
               write |-> FALSE, requests |-> 0, called |-> FALSE]
         ELSE LET r == format_text_with_chatgpt(ocr_text, script) IN
              IF r.kind = "raise"
              THEN [kind |-> "raise", raw |-> ocr_text, fmt |-> <<>>,
                    write |-> FALSE, requests |-> r.requests, called |-> TRUE]
              ELSE [kind |-> "return", raw |-> ocr_text, fmt |-> r.value,
                    write |-> TRUE, requests |-> r.requests, called |-> TRUE]
    ELSE [kind |-> "return", raw |-> ocr_text, fmt |-> ocr_text,
          write |-> FALSE, requests |-> 0, called |-> FALSE]

Key(t) == att[t].key

InFlight(t) == att[t].pc \in {"waiting", "extracting"}

\* history: what the call finds when it makes its cache check
Snap(t) ==
    [att[t] EXCEPT
       !.prevOcr = IF lastOcr[Key(t)].has /\ lastOcr[Key(t)].clean
                      /\ Populated(ocrCache[Key(t)])
                   THEN [has |-> TRUE, text |-> lastOcr[Key(t)].text]
                   ELSE NoPrev,
       !.prevFmt = IF lastFmt[Key(t)].has /\ ValidEntry(fmtCache[Key(t)])
                   THEN [has |-> TRUE, text |-> lastFmt[Key(t)].text]
                   ELSE NoPrev,
       !.ocrSeen = ocrCache[Key(t)],
       !.prevEmpty = /\ lastOcr[Key(t)].has /\ lastOcr[Key(t)].extracted
                     /\ lastOcr[Key(t)].text = <<>>
                     /\ ocrCache[Key(t)] = <<>>]

\* the environment: what the service answers to the requests for a text
Service(text) ==
    IF text = strip(Tesseract(PathA)) THEN AllFailScript ELSE FlakyScript

Breaks(t, stages) == broken.path = att[t].path /\ broken.stage \in stages

Finished(t) == att[t].pc \in {"done", "raised"}

\* faulty variant: the cache write stands after the try block, its failure is not caught
ocr_except_persist_outside(stage) ==
    IF stage = "persist"
    THEN [kind |-> "raise", text |-> <<>>]
    ELSE [kind |-> "return", text |-> <<>>]

\* ocr.py 66-68: except Exception -> return ""
ocr_except(stage) == [kind |-> "return", text |-> <<>>]

Returned(text) == [kind |-> "return", text |-> text]

\* ocr_image ends as `oc` (it returns a text, or raises), having left the OCR
\* cache as ocrCacheNew (wrote: it wrote its entry); when it returns,
\* process_attachment runs to its end.
Finish(t, rec, oc, ocrCacheNew, wrote) ==
    LET ocr_text == oc.text
        script == Service(ocr_text)
        res == IF oc.kind = "raise"
               THEN [kind |-> "raise", raw |-> <<>>, fmt |-> <<>>, write |-> FALSE,
                     requests |-> 0, called |-> FALSE]
               ELSE process_attachment(rec.path, ocr_text, script)
        key == rec.key
    IN  /\ att' = [u \in DOMAIN att |->
                     IF u = t
                     THEN [rec EXCEPT
                             !.pc = IF res.kind = "raise" THEN "raised" ELSE "done",
                             !.ocr = ocr_text, !.raw = res.raw, !.fmt = res.fmt,
                             !.ocrRaised = (oc.kind = "raise"),
                             !.requests = res.requests,
                             !.rank = 1 + Cardinality({v \in DOMAIN att :
                                                v[1] = t[1] /\ Finished(v)}),
                             !.script = IF res.called THEN script ELSE <<>>,
                             !.fmtSeen = IF oc.kind = "return" /\ Config.USE_CHATGPT
                                         THEN fmtCache[key] ELSE Absent]
                     ELSE IF wrote /\ InFlight(u) /\ Key(u) = key
                     THEN [att[u] EXCEPT !.dirty = TRUE]
                     ELSE att[u]]
        /\ ocrCache' = ocrCacheNew
        /\ fmtCache' = IF res.write THEN [fmtCache EXCEPT ![key] = res.fmt]
                       ELSE fmtCache
        /\ lastOcr' = [lastOcr EXCEPT ![key] =
                         [has |-> oc.kind = "return", text |-> ocr_text,
                          clean |-> ~rec.dirty,
                          extracted |-> rec.extractions = 1 /\ rec.fail = "none",
                          writes |-> lastOcr[key].writes + (IF wrote THEN 1 ELSE 0),
                          fail |-> rec.fail, path |-> rec.path]]
        /\ lastFmt' = [lastFmt EXCEPT ![key] =
                         [has |-> res.kind = "return" /\ Config.USE_CHATGPT,
                          text |-> res.fmt, clean |-> TRUE, extracted |-> FALSE,
                          writes |-> lastFmt[key].writes + (IF res.write THEN 1 ELSE 0),
                          fail |-> "none", path |-> rec.path]]

\* faulty variant: the cache is read inside the semaphore block
OcrHit_inside_semaphore(t) ==
    /\ att[t].pc = "new"
    /\ ocr_cache_lookup(Key(t)).hit
    /\ sem > 0
    /\ Finish(t, [Snap(t) EXCEPT !.semSeen = sem, !.slots = @ + 1],
              Returned(ocr_cache_lookup(Key(t)).text), ocrCache, FALSE)
    /\ UNCHANGED <<Config, fvars, args, notes, sem, runPc, cursor, notePc, docs, broken>>

\* ocr.py 36-40: cache hit, no slot taken (semSeen: the free slots at that time)
OcrHit(t) ==
    /\ att[t].pc = "new"
    /\ ocr_cache_lookup(Key(t)).hit
    /\ Finish(t, [Snap(t) EXCEPT !.semSeen = sem],
              Returned(ocr_cache_lookup(Key(t)).text), ocrCache, FALSE)
    /\ UNCHANGED <<Config, fvars, args, notes, sem, runPc, cursor, notePc, docs, broken>>

\* ocr.py 43: no slot is free, the call waits
OcrWait(t) ==
    /\ att[t].pc = "new"
    /\ ~ocr_cache_lookup(Key(t)).hit
    /\ sem = 0
    /\ att' = [att EXCEPT ![t] = [Snap(t) EXCEPT !.pc = "waiting"]]
    /\ UNCHANGED <<Config, fvars, args, notes, ocrCache, fmtCache, sem, runPc,
                   cursor, notePc, docs, lastOcr, lastFmt, broken>>

\* faulty variant: the semaphore does not make the call wait
CanAcquire_unbounded(t) ==
    \/ att[t].pc = "new" /\ ~ocr_cache_lookup(Key(t)).hit
    \/ att[t].pc = "waiting"

\* ocr.py 43: async with Config.OCR_SEMAPHORE lets the call in
CanAcquire(t) ==
    /\ \/ att[t].pc = "new" /\ ~ocr_cache_lookup(Key(t)).hit
       \/ att[t].pc = "waiting"
    /\ sem > 0

Entered(t) ==
    [(IF att[t].pc = "new" THEN Snap(t) ELSE att[t]) EXCEPT !.slots = @ + 1]

\* ocr.py 43-54: slot taken, image opened and preprocessed, extraction started
OcrAcquire(t) ==
    /\ CanAcquire(t)
    /\ ~Breaks(t, {"open", "preprocess"})
    /\ sem' = sem - 1
    /\ att' = [att EXCEPT ![t] = [Entered(t) EXCEPT !.pc = "extracting",
                                                    !.extractions = @ + 1]]
    /\ UNCHANGED <<Config, fvars, args, notes, ocrCache, fmtCache, runPc, cursor,
                   notePc, docs, lastOcr, lastFmt, broken>>

\* ocr.py 45-51 raise: caught at 66-68, slot released on leaving the block
OcrOpenFail(t) ==
    /\ CanAcquire(t)
    /\ Breaks(t, {"open", "preprocess"})
    /\ Finish(t, [Entered(t) EXCEPT !.fail = broken.stage],
              ocr_except(broken.stage), ocrCache, FALSE)
    /\ UNCHANGED <<Config, fvars, args, notes, sem, runPc, cursor, notePc, docs, broken>>

\* faulty variant: an empty extraction result is not written to the cache
OcrExtracted_skip_empty(t) ==
    /\ att[t].pc = "extracting"
    /\ ~Breaks(t, {"extract", "persist"})
    /\ sem' = sem + 1
    /\ LET text == strip(Tesseract(att[t].path)) IN
       Finish(t, att[t], Returned(text),
              IF text = <<>> THEN ocrCache ELSE [ocrCache EXCEPT ![Key(t)] = text],
              text # <<>>)
    /\ UNCHANGED <<Config, fvars, args, notes, runPc, cursor, notePc, docs, broken>>

\* ocr.py 54-64: extraction done, result cached and returned
OcrExtracted(t) ==
    /\ att[t].pc = "extracting"
    /\ ~Breaks(t, {"extract", "persist"})
    /\ sem' = sem + 1
    /\ LET text == strip(Tesseract(att[t].path)) IN
       Finish(t, att[t], Returned(text), [ocrCache EXCEPT ![Key(t)] = text], TRUE)
    /\ UNCHANGED <<Config, fvars, args, notes, runPc, cursor, notePc, docs, broken>>

\* faulty variant: the slot is released on the success path only
OcrExtractFail_slot_kept(t) ==
    /\ att[t].pc = "extracting"
    /\ Breaks(t, {"extract"})
    /\ sem' = sem
    /\ Finish(t, [att[t] EXCEPT !.fail = "extract"], ocr_except("extract"),
              ocrCache, FALSE)
    /\ UNCHANGED <<Config, fvars, args, notes, runPc, cursor, notePc, docs, broken>>

\* faulty variant: the handler caches the empty string it returns
OcrExtractFail_cached(t) ==
    /\ att[t].pc = "extracting"
    /\ Breaks(t, {"extract"})
    /\ sem' = sem + 1
    /\ Finish(t, [att[t] EXCEPT !.fail = "extract"], ocr_except("extract"),
              [ocrCache EXCEPT ![Key(t)] = <<>>], TRUE)
    /\ UNCHANGED <<Config, fvars, args, notes, runPc, cursor, notePc, docs, broken>>

\* ocr.py 54 raises: caught at 66-68
OcrExtractFail(t) ==
    /\ att[t].pc = "extracting"
    /\ Breaks(t, {"extract"})
    /\ sem' = sem + 1
    /\ Finish(t, [att[t] EXCEPT !.fail = "extract"], ocr_except("extract"),
              ocrCache, FALSE)
    /\ UNCHANGED <<Config, fvars, args, notes, runPc, cursor, notePc, docs, broken>>

\* ocr.py 61-62 raise: caught at 66-68; open(.., "w") may have emptied the file
OcrPersistFail(t) ==
    /\ att[t].pc = "extracting"
    /\ Breaks(t, {"persist"})
    /\ sem' = sem + 1
    /\ \E truncated \in BOOLEAN :
         Finish(t, [att[t] EXCEPT !.fail = "persist"], ocr_except("persist"),
                IF truncated THEN [ocrCache EXCEPT ![Key(t)] = <<>>] ELSE ocrCache,
                truncated)
    /\ UNCHANGED <<Config, fvars, args, notes, runPc, cursor, notePc, docs, broken>>

(***************************************************************************)
(* processors.py: process_note;  cli.py: the loops of run()                *)
(***************************************************************************)
batch_size == 10

Min(a, b) == IF a < b THEN a ELSE b

\* faulty variant: the debug loop forgets the slice
LastSelected_all == Len(notes)

\* the notes run() processes: json_files[:DEBUG_FILE_COUNT], or all of them
LastSelected ==
    IF Config.DEBUG_MODE THEN Min(Config.DEBUG_FILE_COUNT, Len(notes))
    ELSE Len(notes)

\* faulty variant: every remaining note is launched at once
Batch_unbounded == {n \in NoteIds : cursor <= n}

\* cli.py 73: batch = json_files[i:i+batch_size]
Batch == {n \in NoteIds : cursor <= n /\ n < cursor + batch_size}

\* faulty variant: the results are collected as the attachments complete
gather_as_completed(n) ==
    [i \in 1..Cardinality(TasksOf(n)) |->
        LET t == CHOOSE u \in TasksOf(n) : att[u].rank = i
        IN  <<att[t].raw, att[t].fmt>>]

\* processors.py 104-107: the results of gather, by position
gather(n) ==
    [i \in 1..Cardinality(TasksOf(n)) |->
        <<att[<<n, i>>].raw, att[<<n, i>>].fmt>>]

\* output.py 54-56, 146-174: what a document shows of one attachment: the
\* OCR text, and the formatted text when it differs and formatting is on
ShownOf(ocr_text, formatted_text) ==
    [ ocr     |-> ocr_text,
      shown   |-> formatted_text # ocr_text /\ Config.USE_CHATGPT,
      chatgpt |-> IF formatted_text # ocr_text /\ Config.USE_CHATGPT
                  THEN formatted_text ELSE <<>> ]

\* output.py 47-56: the attachment section of the Markdown document, one
\* entry per "### Attachment idx"
create_markdown(ocr_results, formatted_texts) ==
    IF ocr_results # <<>> /\ ocr_results[1] # <<>>
    THEN [i \in 1..Min(Len(ocr_results), Len(formatted_texts)) |->
             ShownOf(ocr_results[i], formatted_texts[i])]
    ELSE <<>>

\* output.py 136-185: the attachment rows of the HTML document
create_html(ocr_results, formatted_texts, attachment_files) ==
    [idx \in 1..Len(attachment_files) |->
        ShownOf(IF idx <= Len(ocr_results) THEN ocr_results[idx] ELSE <<>>,
                IF idx <= Len(formatted_texts) THEN formatted_texts[idx] ELSE <<>>)]

\* processors.py 110-122: the arguments create_markdown / create_html get,
\* and the attachment parts of the documents they return
Documents(n) ==
    LET ocr_results == [i \in 1..Len(gather(n)) |-> gather(n)[i][1]]
        formatted_texts == [i \in 1..Len(gather(n)) |-> gather(n)[i][2]]
    IN  [ written |-> TRUE,
          paths   |-> attachment_paths(notes[n]),
          raw     |-> ocr_results,
          fmt     |-> formatted_texts,
          starts  |-> docs[n].starts,
          md      |-> create_markdown(ocr_results, formatted_texts),
          html    |-> create_html(ocr_results, formatted_texts,
                                  attachment_paths(notes[n])) ]

\* cli.py 56-57: the debug loop awaits the next note; cli.py 76-84: the
\* event loop starts the tasks of a batch in the order gather created them
CanStart(n) ==
    /\ runPc = "running"
    /\ IF Config.DEBUG_MODE
       THEN n = cursor /\ n <= LastSelected /\ notePc[n] = "new"
       ELSE /\ notePc[n] = "scheduled"
            /\ \A m \in 1..(n - 1) : notePc[m] # "scheduled"

\* processors.py 84-85: json.load raises on a note file that is not valid JSON
NoteLoadFail(n) ==
    /\ CanStart(n)
    /\ broken.note = n
    /\ notePc' = [notePc EXCEPT ![n] = "raised"]
    /\ docs' = [docs EXCEPT ![n].starts = @ + 1]
    /\ UNCHANGED <<Config, fvars, args, notes, ocrCache, fmtCache, sem, runPc,
                   cursor, att, lastOcr, lastFmt, broken>>

\* processors.py 84-105: process_note up to its await of gather
StartNote(n) ==
    /\ CanStart(n)
    /\ broken.note # n
    /\ IF TasksOf(n) = {}
       THEN /\ notePc' = [notePc EXCEPT ![n] = "done"]
            /\ docs' = [docs EXCEPT ![n] = [Documents(n) EXCEPT !.starts = @ + 1]]
            /\ att' = att
       ELSE /\ notePc' = [notePc EXCEPT ![n] = "gather"]
            /\ att' = [t \in DOMAIN att |->
                         IF t \in TasksOf(n) THEN [att[t] EXCEPT !.pc = "new"]
                         ELSE att[t]]
            /\ docs' = [docs EXCEPT ![n].starts = @ + 1]
    /\ UNCHANGED <<Config, fvars, args, notes, ocrCache, fmtCache, sem, runPc,
                   cursor, lastOcr, lastFmt, broken>>

\* processors.py 105-122: every attachment returned, both documents written
FinishNote(n) ==
    /\ notePc[n] = "gather"
    /\ \A t \in TasksOf(n) : att[t].pc = "done"
    /\ notePc' = [notePc EXCEPT ![n] = "done"]
    /\ docs' = [docs EXCEPT ![n] = Documents(n)]
    /\ UNCHANGED <<Config, fvars, args, notes, ocrCache, fmtCache, sem, runPc,
                   cursor, att, lastOcr, lastFmt, broken>>

\* processors.py 105: gather re-raises the exception of an attachment
FailNote(n) ==
    /\ notePc[n] = "gather"
    /\ \E t \in TasksOf(n) : att[t].pc = "raised"
    /\ notePc' = [notePc EXCEPT ![n] = "raised"]
    /\ UNCHANGED <<Config, fvars, args, notes, ocrCache, fmtCache, sem, runPc,
                   cursor, att, docs, lastOcr, lastFmt, broken>>

\* cli.py 56-63: the debug loop goes on to the next file
DebugNext ==
    /\ runPc = "running"
    /\ Config.DEBUG_MODE
    /\ cursor <= LastSelected
    /\ notePc[cursor] = "done"
    /\ cursor' = cursor + 1
    /\ UNCHANGED <<Config, fvars, args, notes, ocrCache, fmtCache, sem, runPc,
                   notePc, att, docs, lastOcr, lastFmt, broken>>

\* cli.py 72-84: the tasks of one batch are created
LaunchBatch ==
    /\ runPc = "running"
    /\ ~Config.DEBUG_MODE
    /\ cursor <= Len(notes)
    /\ notePc[cursor] = "new"
    /\ notePc' = [n \in NoteIds |-> IF n \in Batch THEN "scheduled" ELSE notePc[n]]
    /\ UNCHANGED <<Config, fvars, args, notes, ocrCache, fmtCache, sem, runPc,
                   cursor, att, docs, lastOcr, lastFmt, broken>>

\* cli.py 84, 72: gather returned, the loop goes on to the next batch
BatchDone ==
    /\ runPc = "running"
    /\ ~Config.DEBUG_MODE
    /\ cursor <= Len(notes)
    /\ \A n \in Batch : notePc[n] = "done"
    /\ cursor' = cursor + batch_size
    /\ UNCHANGED <<Config, fvars, args, notes, ocrCache, fmtCache, sem, runPc,
                   notePc, att, docs, lastOcr, lastFmt, broken>>

\* faulty variant: completion is reported when the first note is done
RunComplete_early ==
    /\ runPc = "running"
    /\ notePc[1] = "done"
    /\ runPc' = "complete"
    /\ UNCHANGED <<Config, fvars, args, notes, ocrCache, fmtCache, sem, cursor,
                   notePc, att, docs, lastOcr, lastFmt, broken>>

\* cli.py 86: "Processing complete!"
RunComplete ==
    /\ runPc = "running"
    /\ cursor > LastSelected
    /\ runPc' = "complete"
    /\ UNCHANGED <<Config, fvars, args, notes, ocrCache, fmtCache, sem, cursor,
                   notePc, att, docs, lastOcr, lastFmt, broken>>

\* cli.py 57, 84, 142-144: the exception of a note leaves run(); asyncio.run
\* cancels what is left (a cancelled ocr_image releases its slot while the
\* worker thread finishes its extraction), main exits with status 1
FailRun ==
    /\ runPc = "running"
    /\ \E n \in NoteIds : notePc[n] = "raised"
    /\ runPc' = "failed"
    /\ notePc' = [n \in NoteIds |->
                    IF notePc[n] \in {"scheduled", "gather"} THEN "cancelled"
                    ELSE notePc[n]]
    /\ att' = [t \in DOMAIN att |->
                 IF att[t].pc \in {"new", "waiting"}
                 THEN [att[t] EXCEPT !.pc = "cancelled"]
                 ELSE IF att[t].pc = "extracting"
                 THEN [att[t] EXCEPT !.pc = "abandoned"]
                 ELSE att[t]]
    /\ sem' = sem + Cardinality({t \in DOMAIN att : att[t].pc = "extracting"})
    /\ UNCHANGED <<Config, fvars, args, notes, ocrCache, fmtCache, cursor, docs,
                   lastOcr, lastFmt, broken>>

Next ==
    \/ RunStart
    \/ \E n \in NoteIds : StartNote(n)
    \/ \E n \in NoteIds : NoteLoadFail(n)
    \/ \E n \in NoteIds : FinishNote(n)
    \/ \E n \in NoteIds : FailNote(n)
    \/ DebugNext
    \/ LaunchBatch
    \/ BatchDone
    \/ RunComplete
    \/ FailRun
    \/ \E t \in DOMAIN att : OcrHit(t)
    \/ \E t \in DOMAIN att : OcrWait(t)
    \/ \E t \in DOMAIN att : OcrAcquire(t)
    \/ \E t \in DOMAIN att : OcrOpenFail(t)
    \/ \E t \in DOMAIN att : OcrExtracted(t)
    \/ \E t \in DOMAIN att : OcrExtractFail(t)
    \/ \E t \in DOMAIN att : OcrPersistFail(t)

Spec == Init /\ [][Next]_vars

(***************************************************************************)
(* Properties                                                              *)
(***************************************************************************)
ExtractionsInProgress ==
    Cardinality({t \in DOMAIN att : att[t].pc \in {"extracting", "abandoned"}})

\* C1: at every moment at most OCR_SEMAPHORE_LIMIT (4) extraction operations
\* are in progress, however many attachments ask for OCR at once.
C1_OcrConcurrencyBound == ExtractionsInProgress <= 4

\* C1 witness: every slot is held and another ocr_image call waits for one
C1_SlotsFullAndWaiting ==
    /\ ExtractionsInProgress = 4
    /\ \E t \in DOMAIN att : att[t].pc = "waiting"

\* C2: a format call on a text of at least 10 characters makes at most 3
\* requests and returns; when its first two attempts fail and the third
\* succeeds it makes exactly 3 requests and returns the third answer's text.
C2_RetryThenSuccess ==
    (fmtOut.kind # "pending" /\ Len(strip(fmtIn.text)) >= 10) =>
        /\ fmtOut.kind = "return"
        /\ fmtOut.requests <= 3
        /\ fmtIn.script = FlakyScript =>
              fmtOut.requests = 3 /\ fmtOut.value = Generated

\* C3: when every attempt of the format call of an attachment fails, the
\* call returns a text that starts with the error marker, and
\* process_attachment caches that text and returns it as the formatted text.
C3_ExhaustedRetriesCached ==
    \A t \in DOMAIN att :
        ( /\ Finished(t)
          /\ att[t].script = AllFailScript
          /\ Len(strip(att[t].ocr)) >= 10 ) =>
            /\ att[t].pc = "done"
            /\ startswith(att[t].fmt, CrossMark)
            /\ fmtCache[Key(t)] = att[t].fmt

\* C4: for a text that is empty or shorter than 10 characters,
\* format_text_with_chatgpt makes no request and returns the "text too
\* short" sentinel.
C4_ShortTextGuard ==
    (fmtOut.kind # "pending" /\ (fmtIn.text = <<>> \/ Len(fmtIn.text) < 10)) =>
        /\ fmtOut.kind = "return"
        /\ fmtOut.value = TooShortSentinel
        /\ fmtOut.requests = 0

\* C4 witness: a text of 9 characters, none of them whitespace, was refused
C4_NineCharsRefused ==
    /\ fmtOut.kind = "return"
    /\ Len(fmtIn.text) = 9
    /\ strip(fmtIn.text) = fmtIn.text
    /\ fmtOut.value = TooShortSentinel

\* C5: an ocr_image call that follows a returned call on the same image
\* identity (cache key), the OCR cache entry being populated, returns the text
\* the earlier call returned, performs no extraction and takes no OCR slot.
C5_OcrCacheIdempotent ==
    \A t \in DOMAIN att :
        att[t].prevOcr.has =>
            /\ att[t].slots = 0
            /\ att[t].extractions = 0
            /\ ~InFlight(t)
            /\ Finished(t) => ~att[t].ocrRaised /\ att[t].ocr = att[t].prevOcr.text

\* C5 witness: a second call returned the non-empty text of the first
C5_SecondCallServedFromCache ==
    \E t \in DOMAIN att :
        /\ att[t].pc = "done"
        /\ att[t].prevOcr.has
        /\ att[t].ocr # <<>>
        /\ att[t].ocr = att[t].prevOcr.text

\* C6: with formatting enabled, a process_attachment call that follows a
\* returned call on the same attachment identity, the formatting cache entry
\* holding a result, returns the formatted text the earlier call returned and
\* makes no request to the formatting service.
C6_FormatCacheIdempotent ==
    \A t \in DOMAIN att :
        (Finished(t) /\ Config.USE_CHATGPT /\ att[t].prevFmt.has) =>
            /\ att[t].pc = "done"
            /\ att[t].fmt = att[t].prevFmt.text
            /\ att[t].requests = 0

\* C6 witness: a second call returned the formatted text of the first
C6_SecondCallServedFromCache ==
    \E t \in DOMAIN att :
        /\ att[t].pc = "done"
        /\ Config.USE_CHATGPT
        /\ att[t].prevFmt.has
        /\ att[t].fmt # <<>>
        /\ att[t].fmt = att[t].prevFmt.text

\* C7: the raw-text list and the formatted-text list handed to document
\* generation are as long as the note's list of existing attachment paths,
\* and position i of each holds the result of the attachment at position i
\* of that list, whatever the order in which the attachments completed.
C7_ResultsAlignedWithPaths ==
    \A n \in NoteIds :
        docs[n].written =>
            /\ Len(docs[n].raw) = Len(docs[n].paths)
            /\ Len(docs[n].fmt) = Len(docs[n].paths)
            /\ \A i \in 1..Len(docs[n].paths) :
                 /\ \E t \in TasksOf(n) : att[t].path = docs[n].paths[i]
                 /\ \A t \in TasksOf(n) :
                      att[t].path = docs[n].paths[i] =>
                          /\ docs[n].raw[i] = att[t].raw
                          /\ docs[n].fmt[i] = att[t].fmt

\* C7 witness: documents written for a note with at least three attachments,
\* a later attachment having completed before an earlier one with another text
C7_StaggeredCompletion ==
    \E n \in NoteIds :
        /\ docs[n].written
        /\ Len(docs[n].paths) >= 3
        /\ \E t, u \in TasksOf(n) :
             /\ t[2] < u[2]
             /\ att[u].rank < att[t].rank
             /\ att[t].raw # att[u].raw

HasMissing(n) ==
    \E i \in 1..Len(notes[n]) : ~exists(join(ATTACHMENTS_FOLDER, notes[n][i]))

\* C8: a note that references a missing attachment file is processed without
\* raising: no task exists for the missing file, and once the note is done
\* both documents are written with one result per existing attachment.
C8_MissingAttachmentTolerated ==
    \A n \in NoteIds :
        HasMissing(n) =>
            /\ notePc[n] # "raised"
            /\ \A t \in TasksOf(n) : exists(att[t].path)
            /\ notePc[n] = "done" =>
                  /\ docs[n].written
                  /\ Len(docs[n].raw) = Cardinality(TasksOf(n))

\* C9: with formatting disabled, process_attachment returns (raw, raw),
\* raw being what ocr_image returned, the empty string included.
C9_DisabledPassthrough ==
    \A t \in DOMAIN att :
        (Finished(t) /\ ~Config.USE_CHATGPT) =>
            /\ att[t].pc = "done"
            /\ att[t].raw = att[t].ocr
            /\ att[t].fmt = att[t].ocr

\* C9 witness: formatting disabled, one attachment returned ("", "") and
\* another returned its non-empty text twice
C9_EmptyAndNonEmptyPassed ==
    /\ ~Config.USE_CHATGPT
    /\ \E t, u \in DOMAIN att :
         /\ att[t].pc = "done" /\ att[t].ocr = <<>> /\ att[t].fmt = <<>>
         /\ att[u].pc = "done" /\ att[u].ocr # <<>> /\ att[u].fmt = att[u].ocr

\* C10: a failure while opening, preprocessing, extracting or persisting is
\* caught inside ocr_image, which returns the empty string and does not raise.
C10_OcrFailureCaught ==
    \A t \in DOMAIN att :
        att[t].fail # "none" =>
            /\ Finished(t)
            /\ ~att[t].ocrRaised
            /\ att[t].ocr = <<>>

\* C10 witness: the cache write of an extraction failed and the attachment
\* was still returned, with the empty string
C10_PersistFailureReturnedEmpty ==
    \E t \in DOMAIN att :
        /\ att[t].fail = "persist"
        /\ att[t].pc = "done"
        /\ att[t].raw = <<>>

\* C11: format_text_with_chatgpt never raises: whatever the text and the
\* outcomes of the service, it returns the generated text or a text that
\* starts with the error marker.
C11_FormatNeverRaises ==
    fmtOut.kind # "pending" =>
        /\ fmtOut.kind = "return"
        /\ \/ fmtOut.value = Generated
           \/ startswith(fmtOut.value, CrossMark)

\* C12: within a note, an attachment whose pipeline failed (its OCR failed or
\* its processing raised) neither makes the note raise nor keeps a sibling
\* attachment from completing, and once every attachment has ended the note
\* writes its documents.
C12_AttachmentFailureIsolated ==
    \A n \in NoteIds :
        (\E t \in TasksOf(n) : att[t].fail # "none" \/ att[t].pc = "raised") =>
            /\ notePc[n] # "raised"
            /\ \A u \in TasksOf(n) : att[u].pc \notin {"cancelled", "abandoned"}
            /\ notePc[n] = "done" => docs[n].written

Selected == 1..LastSelected

\* C13: when the processing of a note failed, every other note of the
\* selected subset is still processed to completion: the run does not end
\* with a selected note unprocessed or cancelled.
C13_NoteFailureIsolated ==
    (runPc \in {"complete", "failed"} /\ \E n \in Selected : notePc[n] = "raised") =>
        \A m \in Selected : notePc[m] \in {"done", "raised"}

\* history: the formatting cache entry process_attachment found was an error
\* sentinel
FoundSentinel(t) ==
    /\ Finished(t)
    /\ Config.USE_CHATGPT
    /\ startswith(strip(att[t].fmtSeen), CrossMark)

\* C14: when the formatting cache entry of an attachment holds an error
\* sentinel, process_attachment returns that sentinel as its formatted text
\* and makes no request to the formatting service.
C14_CachedSentinelReturned ==
    \A t \in DOMAIN att :
        FoundSentinel(t) =>
            /\ att[t].pc = "done"
            /\ att[t].fmt \in {att[t].fmtSeen, strip(att[t].fmtSeen)}
            /\ att[t].requests = 0

NotesInFlight == {n \in NoteIds : notePc[n] \in {"scheduled", "gather"}}

BatchOf(n) == (n - 1) \div batch_size

\* C15: in non-debug mode at most 10 note pipelines are in flight at any
\* moment, and a note is launched only when every note of the batches before
\* its own has finished.
C15_BatchesSequential ==
    ~Config.DEBUG_MODE =>
        /\ Cardinality(NotesInFlight) <= 10
        /\ \A n, m \in NoteIds :
             (notePc[n] # "new" /\ BatchOf(m) < BatchOf(n)) => notePc[m] = "done"

\* C15 witness: the ten notes of the first batch are in flight together and
\* the eleventh note has not been launched
C15_FullBatchInFlight ==
    /\ ~Config.DEBUG_MODE
    /\ Cardinality({n \in NoteIds : notePc[n] = "gather"}) = 10
    /\ notePc[11] = "new"

\* C16: in debug mode at most one note pipeline is in flight at any moment
\* and no note beyond the first DEBUG_FILE_COUNT notes is ever started.
C16_DebugOneAtATime ==
    (Config.DEBUG_MODE /\ runPc # "init") =>
        /\ Cardinality(NotesInFlight) <= 1
        /\ \A n \in NoteIds : n > Config.DEBUG_FILE_COUNT => notePc[n] = "new"
        /\ \A n, m \in NoteIds : (m < n /\ notePc[n] # "new") => notePc[m] = "done"

\* C16 witness: a debug run with K = 1 on two notes completed, the first
\* note processed and the second never started
C16_StoppedAfterK ==
    /\ Config.DEBUG_MODE
    /\ runPc = "complete"
    /\ Config.DEBUG_FILE_COUNT = 1
    /\ Len(notes) = 2
    /\ notePc[1] = "done" /\ docs[1].written
    /\ notePc[2] = "new"

NothingProcessed ==
    /\ \A n \in NoteIds : notePc[n] = "new" /\ ~docs[n].written
    /\ \A t \in DOMAIN att :
         /\ att[t].pc = "idle"
         /\ att[t].extractions = 0
         /\ att[t].requests = 0

\* C17: when formatting is enabled and the API key is missing, the run exits
\* with status 1 and no note or attachment is ever processed: no OCR, no
\* formatting request, no document written.
C17_MissingKeyIsFatal ==
    (runPc # "init" /\ Config.USE_CHATGPT /\ ~Config.OPENAI_API_KEY) =>
        /\ runPc = "exit1"
        /\ NothingProcessed

\* C17 witness: the run has exited with status 1 on a folder of notes with
\* attachments, none of them touched
C17_ExitedBeforeProcessing ==
    /\ runPc = "exit1"
    /\ Config.USE_CHATGPT /\ ~Config.OPENAI_API_KEY
    /\ DOMAIN att # {}
    /\ NothingProcessed

\* history: with formatting enabled, ocr_image returned an empty or
\* whitespace-only text to process_attachment, which has ended
EmptyRaw(t) ==
    /\ Finished(t)
    /\ Config.USE_CHATGPT
    /\ ~att[t].ocrRaised
    /\ strip(att[t].ocr) = <<>>

\* C18 as stated: with formatting enabled, whenever the raw OCR text is empty
\* or only whitespace, process_attachment makes no formatting request and
\* returns (raw, raw).
C18_EmptyRawPassthrough ==
    \A t \in DOMAIN att :
        EmptyRaw(t) =>
            /\ att[t].pc = "done"
            /\ att[t].requests = 0
            /\ att[t].raw = att[t].ocr
            /\ att[t].fmt = att[t].raw

\* C18 amended: with formatting enabled, whenever the raw OCR text is empty
\* or only whitespace, process_attachment makes no formatting request; it
\* returns (raw, raw) unless the formatting cache holds a non-empty entry
\* without the error marker, and then (raw, that entry stripped).
C18_EmptyRawNoRequest ==
    \A t \in DOMAIN att :
        EmptyRaw(t) =>
            /\ att[t].pc = "done"
            /\ att[t].requests = 0
            /\ att[t].script = <<>>
            /\ att[t].raw = att[t].ocr
            /\ att[t].fmt = IF ValidEntry(att[t].fmtSeen)
                            THEN strip(att[t].fmtSeen) ELSE att[t].raw

\* C18 witness: formatting enabled, no usable cache entry, an empty OCR text
\* came back as ("", "")
C18_EmptyRawSkipped ==
    \E t \in DOMAIN att :
        /\ EmptyRaw(t)
        /\ ~ValidEntry(att[t].fmtSeen)
        /\ att[t].pc = "done"
        /\ att[t].fmt = <<>>

\* C19: an ocr_image call that finds a non-empty cached value returns it in
\* that step, leaving the number of free OCR slots as it is and acquiring
\* none, also when no slot is free.
C19_CacheHitTakesNoSlot ==
    [][\A t \in DOMAIN att :
          ( /\ att[t].pc = "new"
            /\ ocr_cache_lookup(Key(t)).hit
            /\ att'[t].pc \notin {"new", "cancelled"} ) =>
              /\ Finished(t)'
              /\ att'[t].ocr = strip(ocrCache[Key(t)])
              /\ att'[t].slots = 0
              /\ att'[t].extractions = 0
              /\ sem' = sem]_vars

\* C19 witness: a call was served from the cache while every OCR slot was
\* held by an extraction
C19_HitWhileSlotsFull ==
    \E t \in DOMAIN att :
        /\ att[t].semSeen = 0
        /\ att[t].pc = "done"
        /\ att[t].ocr # <<>>
        /\ att[t].slots = 0
        /\ ExtractionsInProgress = 4

\* C20: a slot is held only by an ocr_image call that is extracting: every
\* call that has returned, with a text or after a failure, has given its slot
\* back, and whenever no ocr_image call is in progress all
\* OCR_SEMAPHORE_LIMIT slots are free.
C20_SlotsReleased ==
    runPc # "init" =>
        /\ sem + Cardinality({t \in DOMAIN att : att[t].pc = "extracting"})
             = Config.OCR_SEMAPHORE_LIMIT
        /\ (\A t \in DOMAIN att : ~InFlight(t)) => sem = Config.OCR_SEMAPHORE_LIMIT

\* C20 witness: one call took a slot and failed in its extraction, another
\* took a slot and succeeded, no call is in progress and all slots are free
C20_AllFreeAfterFailure ==
    /\ sem = Config.OCR_SEMAPHORE_LIMIT
    /\ \A t \in DOMAIN att : ~InFlight(t)
    /\ \E t, u \in DOMAIN att :
         /\ att[t].fail = "extract" /\ att[t].slots = 1 /\ att[t].pc = "done"
         /\ att[u].fail = "none" /\ att[u].slots = 1 /\ att[u].pc = "done"

\* C21: when the run has reported completion, every note of the selected
\* subset has been processed and has written its documents, and at every
\* moment process_note has been called at most once on each note (exactly
\* once on each selected note at completion, never on an unselected one).
C21_CompleteAfterAllNotes ==
    /\ \A n \in NoteIds : docs[n].starts <= 1
    /\ runPc = "complete" =>
          /\ \A n \in Selected :
               notePc[n] = "done" /\ docs[n].written /\ docs[n].starts = 1
          /\ \A n \in NoteIds \ Selected : docs[n].starts = 0

\* C21 witness: a run over two selected notes with attachments has reported
\* completion, each note processed once
C21_CompletedTwoNotes ==
    /\ runPc = "complete"
    /\ LastSelected = 2
    /\ \A n \in Selected : docs[n].starts = 1 /\ Len(docs[n].paths) >= 2

\* C22: a format call whose attempts 0 and 1 fail and whose attempt 2 succeeds
\* waits twice, base_delay after attempt 0 and base_delay * 2 after attempt 1
\* (the delays strictly increase), and does not wait after the successful
\* attempt; a call whose first attempt succeeds does not wait at all.
C22_ExponentialBackoff ==
    (fmtOut.kind # "pending" /\ Len(strip(fmtIn.text)) >= 10) =>
        /\ fmtOut.kind = "return"
        /\ fmtIn.script = FlakyScript =>
              /\ Len(fmtOut.waits) = 2
              /\ fmtOut.waits[1] > 0
              /\ fmtOut.waits[2] = 2 * fmtOut.waits[1]
        /\ fmtIn.script = <<Ok(Generated)>> => fmtOut.waits = <<>>

\* the step in which the ocr_image call of t, having missed the cache and
\* taken a slot, returns
MissReturns(t) ==
    /\ ~Finished(t)
    /\ Finished(t)'
    /\ att'[t].slots >= 1
    /\ ~att'[t].ocrRaised

C24_EmptyResultNotRetried ==
    \A t \in DOMAIN att :
        att[t].prevEmpty =>
            /\ att[t].extractions = 0
            /\ att[t].slots = 0
            /\ ~InFlight(t)

\* a cache file that exists and holds nothing but whitespace
Blank(content) == content # Absent /\ strip(content) = <<>>

\* C25: a cache entry that is empty or only whitespace is a miss in both
\* namespaces: an ocr_image call that finds one takes a slot and runs the
\* extraction (unless the image cannot be opened), and a process_attachment
\* call that finds one goes on as without an entry: it returns (raw, raw) for
\* an empty raw text and calls the formatter otherwise.
C25_BlankEntryIsMiss ==
    \A t \in DOMAIN att :
        /\ (Finished(t) /\ Blank(att[t].ocrSeen)) =>
              /\ att[t].slots = 1
              /\ att[t].extractions = 1 \/ att[t].fail \in {"open", "preprocess"}
        /\ (Finished(t) /\ Config.USE_CHATGPT /\ Blank(att[t].fmtSeen)) =>
              IF strip(att[t].ocr) = <<>>
              THEN att[t].pc = "done" /\ att[t].fmt = att[t].ocr
              ELSE att[t].script # <<>>

\* C25 witness: one call found a blank OCR entry and extracted the text of
\* its image, another found a blank formatting entry and returned what the
\* formatter returned
C25_BlankEntriesBypassed ==
    /\ \E t \in DOMAIN att :
         /\ Finished(t) /\ Blank(att[t].ocrSeen)
         /\ att[t].extractions = 1 /\ att[t].ocr # <<>>
    /\ \E u \in DOMAIN att :
         /\ att[u].pc = "done" /\ Config.USE_CHATGPT /\ Blank(att[u].fmtSeen)
         /\ att[u].script # <<>>
         /\ att[u].fmt # <<>>

\* the step in which process_attachment of t ends, formatting enabled, having
\* found no usable cache entry and a raw text that is not empty but shorter
\* than 10 characters
ShortTextEnds(t) ==
    /\ ~Finished(t)
    /\ Finished(t)'
    /\ Config.USE_CHATGPT
    /\ ~att'[t].ocrRaised
    /\ strip(att'[t].ocr) # <<>>
    /\ Len(att'[t].ocr) < MinTextLength
    /\ ~ValidEntry(fmtCache[Key(t)])

\* C26 as stated: when the text to format is not empty but shorter than 10
\* characters, the "too short" sentinel is returned and the formatting cache
\* entry of the attachment is left as it was.
C26_ShortTextLeavesCache ==
    [][\A t \in DOMAIN att :
          ShortTextEnds(t) =>
              /\ att'[t].fmt = TooShortSentinel
              /\ fmtCache'[Key(t)] = fmtCache[Key(t)]]_vars

\* C26 amended: when the text to format is not empty but shorter than 10
\* characters, format_text_with_chatgpt returns the "too short" sentinel
\* without a request, and process_attachment writes that sentinel to the
\* formatting cache entry of the attachment and returns it as the formatted
\* text.
C26_ShortTextSentinelCached ==
    [][\A t \in DOMAIN att :
          ShortTextEnds(t) =>
              /\ att'[t].pc = "done"
              /\ att'[t].fmt = TooShortSentinel
              /\ att'[t].requests = 0
              /\ fmtCache'[Key(t)] = TooShortSentinel]_vars

\* C26 witness: an attachment with a two-character text and no cache entry
\* got the sentinel, which is now its formatting cache entry
C26_SentinelWritten ==
    \E t \in DOMAIN att :
        /\ att[t].pc = "done"
        /\ Config.USE_CHATGPT
        /\ Len(att[t].ocr) = 2
        /\ att[t].fmtSeen = Absent
        /\ att[t].fmt = TooShortSentinel
        /\ fmtCache[Key(t)] = TooShortSentinel

\* C27: within one run each cache key of each namespace is written by at most
\* one call, also when two notes of one batch reference the same attachment.
C27_SingleWriterPerKey ==
    \A k \in DOMAIN lastOcr :
        /\ lastOcr[k].writes <= 1
        /\ lastFmt[k].writes <= 1

\* C28: a valid formatting result stored for a key is never replaced by an
\* error sentinel, and a stored OCR text is never replaced by a call whose
\* extraction or cache write failed.
C28_EntriesOnlyImproved ==
    [][/\ \A k \in DOMAIN fmtCache :
            ValidEntry(fmtCache[k]) => ~startswith(strip(fmtCache'[k]), CrossMark)
       /\ \A t \in DOMAIN att :
            ( /\ ~Finished(t)
              /\ Finished(t)'
              /\ att'[t].fail # "none"
              /\ Populated(ocrCache[Key(t)]) ) =>
                ocrCache'[Key(t)] = ocrCache[Key(t)]]_vars

\* the document part `section` shows, at position i, the texts raw and fmt
\* (an attachment with no text at all has nothing to show)
Visible(section, i, raw, fmt) ==
    (raw # <<>> \/ fmt # <<>>) =>
        /\ i <= Len(section)
        /\ section[i].ocr = raw
        /\ fmt # raw => (section[i].shown /\ section[i].chatgpt = fmt)

\* C30: in the documents written for a note, the result of every processed
\* attachment is visible, in the Markdown and in the HTML document: its raw
\* text, and its formatted text (an error sentinel included) when that
\* differs, also when the extraction of another attachment of the note failed
\* or found nothing.
C30_ResultsVisible ==
    \A n \in NoteIds :
        docs[n].written =>
            \A t \in TasksOf(n) :
                /\ Visible(docs[n].md, t[2], att[t].raw, att[t].fmt)
                /\ Visible(docs[n].html, t[2], att[t].raw, att[t].fmt)

ExtractionFailures == {"open", "preprocess", "extract"}

\* C31: the step in which an ocr_image call ends after an exception in
\* opening, preprocessing or extracting leaves the OCR cache as it is, and the
\* next call on the key of that image misses the cache and goes for a slot to
\* extract again.
C31_FailedOcrLeavesCache ==
    [][\A t \in DOMAIN att :
          /\ ( /\ ~Finished(t)
               /\ Finished(t)'
               /\ att'[t].fail \in ExtractionFailures ) => ocrCache' = ocrCache
          /\ ( /\ att[t].pc = "new"
               /\ att'[t].pc \notin {"new", "cancelled"}
               /\ lastOcr[Key(t)].has
               /\ lastOcr[Key(t)].clean
               /\ lastOcr[Key(t)].fail \in ExtractionFailures ) =>
                 /\ ~ocr_cache_lookup(Key(t)).hit
                 /\ \/ att'[t].pc \in {"waiting", "extracting"}
                    \/ att'[t].slots = 1]_vars

\* C31 witness: in a debug run the extraction of an image failed in the first
\* note, nothing was cached for it, and the call of the second note on the
\* same image ran the extraction again
C31_FailedThenExtractedAgain ==
    \E t, u \in DOMAIN att :
        /\ t[1] < u[1]
        /\ Config.DEBUG_MODE
        /\ att[t].path = att[u].path
        /\ att[t].fail = "extract" /\ att[t].pc = "done"
        /\ att[u].extractions = 1 /\ Finished(u)
        /\ att[u].ocrSeen = Absent

\* C32: a run on well-formed note files that has started processing goes on
\* until it reports completion, and an ocr_image call that waits for a slot
\* goes on waiting until it gets one: the run never ends in a failure (after
\* which nothing more happens), and no waiting call is cancelled.
C32_RunEventuallyCompletes ==
    [][/\ (runPc = "running" /\ broken.note = 0) => runPc' \in {"running", "complete"}
       /\ \A t \in DOMAIN att :
            att[t].pc = "waiting" =>
                \/ att'[t].pc = "waiting"
                \/ att'[t].slots = 1]_vars

\* the call on the key of t that ended last was processed to its end, on
\* another file than t's, and no other call wrote the entry meanwhile
ProcessedOther(t) ==
    /\ lastOcr[Key(t)].has
    /\ lastOcr[Key(t)].clean
    /\ lastOcr[Key(t)].fail = "none"
    /\ Config.USE_CHATGPT => lastFmt[Key(t)].has
    /\ lastOcr[Key(t)].path # att[t].path

\* C33: two distinct attachment files with the same base filename have the
\* same cache key in both namespaces, so a call on the second that follows
\* the processing of the first returns the first one's OCR text and formatted
\* text, with no extraction and no formatting request of its own.
C33_SameBaseNameSharesCache ==
    [][\A t \in DOMAIN att :
          ( /\ att[t].pc = "new"
            /\ att'[t].pc \notin {"new", "cancelled"} ) =>
              /\ \A u \in DOMAIN att :
                    basename(att[u].path) = basename(att[t].path) => Key(u) = Key(t)
              /\ ProcessedOther(t) =>
                    /\ att'[t].pc = "done"
                    /\ att'[t].ocr = lastOcr[Key(t)].text
                    /\ att'[t].fmt = IF Config.USE_CHATGPT THEN lastFmt[Key(t)].text
                                     ELSE lastOcr[Key(t)].text
                    /\ att'[t].extractions = 0
                    /\ att'[t].requests = 0]_vars

====
